---------------------------- MODULE Spec2Model ----------------------------
(***************************************************************************)
(* A model of the Flopay client: the Client class (credentials, fromEnv,   *)
(* authorize, endpoint, isAuthorized) and the transfer Request class       *)
(* (body, the response setter, handleError) of src/src/client.ts.          *)
(*                                                                         *)
(* JavaScript values are tagged records, so that values of different       *)
(* JavaScript types can be compared: [t |-> "undefined"], [t |-> "null"],  *)
(* [t |-> "bool", v |-> TRUE], [t |-> "num", v |-> 10],                    *)
(* [t |-> "str", v |-> "GHS"], [t |-> "arr", v |-> <<...>>] and            *)
(* [t |-> "obj", v |-> f] where f maps the object's own keys to values.    *)
(***************************************************************************)
EXTENDS Integers, Sequences, FiniteSets, TLC

VARIABLES
  input,       \* Request._input: the entries of the Input, in insertion order
  raw,         \* Request._raw
  output,      \* Request._output
  bodyResult,  \* the value the last read of Request.body returned
  arg,         \* the payload of the last assignment to Request.response
  outputOf,    \* history: the payload the current _output was built from
  thrown,      \* what the last operation threw (NoThrow when it returned)
  lastOp,      \* the last operation performed
  env,         \* process.env: FLOPAY_CLIENT_ID and FLOPAY_CLIENT_SECRET
  clients,     \* the Client objects made so far: cred and auth of each
  calls,       \* the authorize() calls made so far, each with its position
  jobs,        \* the microtask queue: the calls whose await has settled
  lastJson,    \* history: per client, the call whose res.json() resolved last
  result       \* the value the last Client operation returned

vars == <<input, raw, output, bodyResult, arg, outputOf, thrown, lastOp,
          env, clients, calls, jobs, lastJson, result>>

requestVars == <<input, raw, output, bodyResult, arg, outputOf>>
clientVars == <<env, clients, calls, jobs, lastJson, result>>

----------------------------------------------------------------------------
(* JavaScript values *)

Undefined == [t |-> "undefined"]
Null == [t |-> "null"]
Bool(b) == [t |-> "bool", v |-> b]
Num(n) == [t |-> "num", v |-> n]
Str(s) == [t |-> "str", v |-> s]
Arr(s) == [t |-> "arr", v |-> s]
Obj(f) == [t |-> "obj", v |-> f]

\* ToBoolean, as `||` applies it
Truthy(x) ==
  CASE x.t \in {"undefined", "null"} -> FALSE
    [] x.t = "bool" -> x.v
    [] x.t = "num" -> x.v # 0
    [] x.t = "str" -> x.v # ""
    [] OTHER -> TRUE

\* a || b
Or(a, b) == IF Truthy(a) THEN a ELSE b

\* String(x) of the values a template literal or an Error message is given here
toStr(x) ==
  CASE x.t = "undefined" -> "undefined"
    [] x.t = "null" -> "null"
    [] x.t = "str" -> x.v
    [] x.t = "bool" -> IF x.v THEN "true" ELSE "false"
    [] x.t = "num" /\ x.v = 0 -> "0"
    [] x.t = "num" /\ x.v = 10 -> "10"

\* o.k for a value that is neither undefined nor null: undefined when o has no
\* own key k (a primitive has none of the keys read here)
Get(o, k) == IF o.t = "obj" /\ k \in DOMAIN o.v THEN o.v[k] ELSE Undefined

\* o.k throws a TypeError exactly for these
Nullish(x) == x.t \in {"undefined", "null"}

\* the object holding the fields of record r that are set
Fields(r) == Obj([k \in {x \in DOMAIN r : r[x] # Undefined} |-> r[k]])

----------------------------------------------------------------------------
(* Errors *)

NoThrow == [kind |-> "none"]

\* new Error(message) and its subclasses: message is toStr(message), and
\* "" when message is undefined
NewError(kind, message) ==
  [kind |-> kind,
   message |-> IF message = Undefined THEN "" ELSE toStr(message)]

\* the TypeError of reading property k of x, undefined or null (V8's wording)
PropertyTypeError(x, k) ==
  [kind |-> "TypeError",
   message |-> "Cannot read properties of " \o toStr(x) \o " (reading '" \o k \o "')"]

\* the TypeError of destructuring x, undefined or null (V8's wording)
DestructureTypeError(x, k, of) ==
  [kind |-> "TypeError",
   message |-> "Cannot destructure property '" \o k \o "' of '" \o of
               \o "' as it is " \o toStr(x) \o "."]

----------------------------------------------------------------------------
(* Request.body: the Input's keys renamed for the wire *)

Lower == {"a", "b", "c", "d", "e", "f", "g", "h", "i", "j", "k", "l", "m",
          "n", "o", "p", "q", "r", "s", "t", "u", "v", "w", "x", "y", "z"}
Upper == {"A", "B", "C", "D", "E", "F", "G", "H", "I", "J", "K", "L", "M",
          "N", "O", "P", "Q", "R", "S", "T", "U", "V", "W", "X", "Y", "Z"}

\* String.prototype.toLowerCase on one character
toLowerCase(c) ==
  IF c \in Upper
  THEN ("A" :> "a" @@ "B" :> "b" @@ "C" :> "c" @@ "D" :> "d" @@ "E" :> "e" @@
        "F" :> "f" @@ "G" :> "g" @@ "H" :> "h" @@ "I" :> "i" @@ "J" :> "j" @@
        "K" :> "k" @@ "L" :> "l" @@ "M" :> "m" @@ "N" :> "n" @@ "O" :> "o" @@
        "P" :> "p" @@ "Q" :> "q" @@ "R" :> "r" @@ "S" :> "s" @@ "T" :> "t" @@
        "U" :> "u" @@ "V" :> "v" @@ "W" :> "w" @@ "X" :> "x" @@ "Y" :> "y" @@
        "Z" :> "z")[c]
  ELSE c

\* the characters of each key of Input
Chars ==
  [senderAmount |-> <<"s", "e", "n", "d", "e", "r", "A", "m", "o", "u", "n", "t">>,
   senderCurrency |-> <<"s", "e", "n", "d", "e", "r", "C", "u", "r", "r", "e", "n", "c", "y">>,
   recipientAmount |-> <<"r", "e", "c", "i", "p", "i", "e", "n", "t", "A", "m", "o", "u", "n", "t">>,
   recipientCurrency |-> <<"r", "e", "c", "i", "p", "i", "e", "n", "t", "C", "u", "r", "r", "e", "n", "c", "y">>,
   recipientNo |-> <<"r", "e", "c", "i", "p", "i", "e", "n", "t", "N", "o">>,
   countryCode |-> <<"c", "o", "u", "n", "t", "r", "y", "C", "o", "d", "e">>,
   serviceCode |-> <<"s", "e", "r", "v", "i", "c", "e", "C", "o", "d", "e">>,
   reference |-> <<"r", "e", "f", "e", "r", "e", "n", "c", "e">>,
   callbackURLs |-> <<"c", "a", "l", "l", "b", "a", "c", "k", "U", "R", "L", "s">>,
   recipientName |-> <<"r", "e", "c", "i", "p", "i", "e", "n", "t", "N", "a", "m", "e">>,
   provider |-> <<"p", "r", "o", "v", "i", "d", "e", "r">>,
   live |-> <<"l", "i", "v", "e">>]

\* lodash reHasUnicodeWord on a string of letters: [a-z][A-Z] or [A-Z]{2}[a-z]
\* (its other alternatives need a digit or a character that is no letter)
hasUnicodeWord(s) ==
  \E i \in 1..Len(s) :
    \/ i + 1 <= Len(s) /\ s[i] \in Lower /\ s[i + 1] \in Upper
    \/ i + 2 <= Len(s) /\ s[i] \in Upper /\ s[i + 1] \in Upper /\ s[i + 2] \in Lower

\* the index of the last character of the longest run of characters of set S
\* that starts at i (i - 1 when s[i] is not in S)
RECURSIVE runEnd(_, _, _)
runEnd(s, i, S) ==
  IF i <= Len(s) /\ s[i] \in S THEN runEnd(s, i + 1, S) ELSE i - 1

\* lodash asciiWords: the maximal runs of letters and digits; a key of letters
\* only is one run
asciiWords(s) == IF s = <<>> THEN <<>> ELSE <<s>>

\* lodash unicodeWords from position i on a string of letters: at each position
\* the first alternative of reUnicodeWord that matches, in order:
\*   1. Upper? Lower+     followed by an upper-case letter or the end
\*   2. Upper+            followed by Upper Lower or the end
\*   3. Upper? Lower+
\*   4. Upper+
RECURSIVE unicodeWords(_, _)
unicodeWords(s, i) ==
  IF i > Len(s) THEN <<>>
  ELSE
    LET lo == IF s[i] \in Upper THEN runEnd(s, i + 1, Lower) ELSE runEnd(s, i, Lower)
        loOk == IF s[i] \in Upper THEN lo >= i + 1 ELSE lo >= i
        up == runEnd(s, i, Upper)
        alt1 == loOk /\ (lo = Len(s) \/ s[lo + 1] \in Upper)
        alt2End == IF up = Len(s) THEN up
                   ELSE IF up - 1 >= i /\ s[up + 1] \in Lower THEN up - 1
                   ELSE i - 1
        end == IF alt1 THEN lo
               ELSE IF alt2End >= i THEN alt2End
               ELSE IF loOk THEN lo
               ELSE up
    IN IF end >= i
       THEN <<SubSeq(s, i, end)>> \o unicodeWords(s, end + 1)
       ELSE unicodeWords(s, i + 1)

\* lodash words(string)
words(s) == IF hasUnicodeWord(s) THEN unicodeWords(s, 1) ELSE asciiWords(s)

\* word.toLowerCase(), as a string
RECURSIVE lowerWord(_)
lowerWord(w) ==
  IF w = <<>> THEN "" ELSE toLowerCase(Head(w)) \o lowerWord(Tail(w))

\* lodash createCompounder's reduce for snakeCase:
\*   (result, word, index) => result + (index ? '_' : '') + word.toLowerCase()
RECURSIVE compound(_, _, _)
compound(ws, index, acc) ==
  IF ws = <<>> THEN acc
  ELSE compound(Tail(ws), index + 1,
                acc \o (IF index # 0 THEN "_" ELSE "") \o lowerWord(Head(ws)))

\* snake(k): lodash.snakecase, on the characters of key k
snake(k) == compound(words(Chars[k]), 0, "")

\* a faulty variant: the reducer without its special case for callbackURLs
wireKeyBySnakeOnly(k) == snake(k)

\* the key the reducer of `body` writes entry k under
wireKey(k) == IF k = "callbackURLs" THEN "callback_urls" ELSE snake(k)

\* b[k] = v
Put(b, k, v) == [x \in (DOMAIN b) \cup {k} |-> IF x = k THEN v ELSE b[x]]

\* Object.entries(this._input).reduce(..., {})
RECURSIVE reduceBody(_, _)
reduceBody(entries, b) ==
  IF entries = <<>> THEN b
  ELSE reduceBody(Tail(entries),
                  Put(b, wireKey(Head(entries)[1]), Head(entries)[2]))

\* get body
body(in) == Obj(reduceBody(in, <<>>))

----------------------------------------------------------------------------
(* Request.response (setter) and Request.handleError *)

\* a faulty variant: the message read from error_message first
handleErrorMessageSwapped(data) ==
  IF Get(data, "success") = Bool(FALSE)
  THEN LET response == Get(data, "response") IN
       IF Nullish(response) THEN PropertyTypeError(response, "message_type")
       ELSE LET type == Or(Get(response, "message_type"), Get(response, "error_type"))
                message == Or(Get(response, "error_message"), Get(response, "message"))
            IN CASE type = Str("invalid_customer_num") ->
                      NewError("InvalidCustomerNumber", message)
                 [] type = Str("exceeded_daily_limit") ->
                      NewError("ExceededDailyLimit", message)
                 [] OTHER ->
                      NewError("Error", Str("unknown error type: " \o toStr(type)
                                            \o ", with message " \o toStr(message)))
  ELSE NoThrow

\* a faulty variant: the switch without its default case
handleErrorNoDefault(data) ==
  IF Get(data, "success") = Bool(FALSE)
  THEN LET response == Get(data, "response") IN
       IF Nullish(response) THEN PropertyTypeError(response, "message_type")
       ELSE LET type == Or(Get(response, "message_type"), Get(response, "error_type"))
                message == Or(Get(response, "message"), Get(response, "error_message"))
            IN CASE type = Str("invalid_customer_num") ->
                      NewError("InvalidCustomerNumber", message)
                 [] type = Str("exceeded_daily_limit") ->
                      NewError("ExceededDailyLimit", message)
                 [] OTHER -> NoThrow
  ELSE NoThrow

\* a faulty variant: `!data.success` in place of `data.success === false`
handleErrorOnFalsy(data) ==
  IF ~Truthy(Get(data, "success"))
  THEN LET response == Get(data, "response") IN
       IF Nullish(response) THEN PropertyTypeError(response, "message_type")
       ELSE LET type == Or(Get(response, "message_type"), Get(response, "error_type"))
                message == Or(Get(response, "message"), Get(response, "error_message"))
            IN CASE type = Str("invalid_customer_num") ->
                      NewError("InvalidCustomerNumber", message)
                 [] type = Str("exceeded_daily_limit") ->
                      NewError("ExceededDailyLimit", message)
                 [] OTHER ->
                      NewError("Error", Str("unknown error type: " \o toStr(type)
                                            \o ", with message " \o toStr(message)))
  ELSE NoThrow

\* handleError(data): what it throws, NoThrow when it returns
handleError(data) ==
  IF Get(data, "success") = Bool(FALSE)
  THEN LET response == Get(data, "response") IN
       IF Nullish(response) THEN PropertyTypeError(response, "message_type")
       ELSE LET type == Or(Get(response, "message_type"), Get(response, "error_type"))
                message == Or(Get(response, "message"), Get(response, "error_message"))
            IN CASE type = Str("invalid_customer_num") ->
                      NewError("InvalidCustomerNumber", message)
                 [] type = Str("exceeded_daily_limit") ->
                      NewError("ExceededDailyLimit", message)
                 [] OTHER ->
                      NewError("Error", Str("unknown error type: " \o toStr(type)
                                            \o ", with message " \o toStr(message)))
  ELSE NoThrow

\* the Output the setter builds from data.response
Output(response) ==
  [success |-> Bool(TRUE),
   response |-> [reference |-> Get(response, "reference"),
                 provider |-> Get(response, "provider"),
                 recipient |-> Get(response, "recipient"),
                 amount |-> Get(response, "amount"),
                 currency |-> Get(response, "currency"),
                 message |-> Get(response, "message")]]

\* a faulty variant: the setter builds the Output only when data.response is there,
\* and returns without one otherwise
responseSetterGuarded(out, data) ==
  LET e == handleError(data)
      response == Get(data, "response")
  IN IF e # NoThrow THEN [raw |-> data, output |-> out, thrown |-> e]
     ELSE IF Nullish(response)
          THEN [raw |-> data, output |-> out, thrown |-> NoThrow]
          ELSE [raw |-> data, output |-> Output(response), thrown |-> NoThrow]

\* a faulty variant: the setter clears _output before it validates the payload
responseSetterClearing(out, data) ==
  LET e == handleError(data)
      response == Get(data, "response")
  IN IF e # NoThrow THEN [raw |-> data, output |-> Undefined, thrown |-> e]
     ELSE IF Nullish(response)
          THEN [raw |-> data, output |-> Undefined,
                thrown |-> DestructureTypeError(response, "reference", "data.response")]
          ELSE [raw |-> data, output |-> Output(response), thrown |-> NoThrow]

\* set response(data), on a request whose _output is out: the fields after the
\* assignment and what it threw
responseSetter(out, data) ==
  LET e == handleError(data)
      response == Get(data, "response")
  IN IF e # NoThrow THEN [raw |-> data, output |-> out, thrown |-> e]
     ELSE IF Nullish(response)
          THEN [raw |-> data, output |-> out,
                thrown |-> DestructureTypeError(response, "reference", "data.response")]
          ELSE [raw |-> data, output |-> Output(response), thrown |-> NoThrow]

\* get response
responseGetter == raw

\* get output
outputGetter == output
----------------------------------------------------------------------------
(* The inputs of the Request: Inputs and provider payloads *)

\* the required entries of an Input
RequiredEntries ==
  << <<"senderAmount", Num(10)>>, <<"senderCurrency", Str("GHS")>>,
     <<"recipientAmount", Num(10)>>, <<"recipientCurrency", Str("GHS")>>,
     <<"recipientNo", Str("0551234567")>>, <<"countryCode", Str("GH")>>,
     <<"serviceCode", Str("cashin")>> >>

\* an optional entry: absent, or present with one of vals
Optional(k, vals) == {<<>>} \cup {<< <<k, v>> >> : v \in vals}

CallbackChoices ==
  {Arr(<<>>), Arr(<<"https://a.example/cb", "https://b.example/cb">>),
   Arr(<<"https://b.example/cb", "https://a.example/cb">>)}

\* every Input: the required entries, then any of the optional ones
Inputs ==
  {RequiredEntries \o r \o c \o n \o p \o l :
     r \in Optional("reference", {Str("R1")}),
     c \in Optional("callbackURLs", CallbackChoices),
     n \in Optional("recipientName", {Str("Ama")}),
     p \in Optional("provider", {Str("MTN")}),
     l \in Optional("live", {Bool(TRUE), Bool(FALSE)})}

\* `response` objects of the failure shape, every field present or not
ErrorResponses ==
  {Fields([message_type |-> mt, error_type |-> et, message |-> m, error_message |-> em]) :
     mt \in {Undefined, Str(""), Str("invalid_customer_num"),
             Str("exceeded_daily_limit"), Str("bogus")},
     et \in {Undefined, Str("invalid_customer_num"),
             Str("exceeded_daily_limit"), Str("bogus")},
     m \in {Undefined, Str(""), Str("bad number")},
     em \in {Undefined, Str("limit hit")}}

FullResponse ==
  [reference |-> Str("R1"), provider |-> Str("MTN"), recipient |-> Str("0551234567"),
   amount |-> Num(10), currency |-> Str("GHS"), message |-> Str("ok")]

\* `response` values of the success shape: complete, with a key more, with keys
\* missing, empty, and a primitive
SuccessResponses ==
  {Obj(FullResponse),
   Obj(FullResponse @@ [fee |-> Num(0)]),
   Obj([reference |-> Str("R2"), message |-> Str("ok")]),
   Obj([message_type |-> Str("invalid_customer_num"), message |-> Str("bad number")]),
   Obj(<<>>),
   Str("oops")}

\* a payload: `success` and `response`, each present or not
Payload(success, response) == Fields([success |-> success, response |-> response])

Payloads ==
  {Payload(Bool(FALSE), r) : r \in ErrorResponses \cup SuccessResponses \cup {Undefined, Null}}
  \cup {Payload(s, r) : s \in {Undefined, Bool(TRUE), Num(0)},
                        r \in SuccessResponses \cup {Undefined, Null}}

----------------------------------------------------------------------------
(* The Request's operations *)

DefaultInput == RequiredEntries

\* new Request(input)
NewRequest(in) ==
  /\ input' = in
  /\ raw' = Undefined
  /\ output' = Undefined
  /\ bodyResult' = Undefined
  /\ arg' = Undefined
  /\ outputOf' = Undefined
  /\ thrown' = NoThrow
  /\ lastOp' = "new"
  /\ UNCHANGED clientVars

\* request.body
ReadBody ==
  /\ bodyResult' = body(input)
  /\ thrown' = NoThrow
  /\ lastOp' = "body"
  /\ UNCHANGED <<input, raw, output, arg, outputOf>>
  /\ UNCHANGED clientVars

\* request.response = data
SetResponse(data) ==
  LET after == responseSetter(output, data) IN
  /\ raw' = after.raw
  /\ output' = after.output
  /\ thrown' = after.thrown
  /\ arg' = data
  /\ outputOf' = IF after.thrown = NoThrow THEN data ELSE outputOf
  /\ lastOp' = "response"
  /\ UNCHANGED <<input, bodyResult>>
  /\ UNCHANGED clientVars

\* a new Request(DefaultInput); no Client yet
Init ==
  /\ input = DefaultInput
  /\ raw = Undefined
  /\ output = Undefined
  /\ bodyResult = Undefined
  /\ arg = Undefined
  /\ outputOf = Undefined
  /\ thrown = NoThrow
  /\ lastOp = "new"
  /\ env = [FLOPAY_CLIENT_ID |-> Undefined, FLOPAY_CLIENT_SECRET |-> Undefined]
  /\ clients = <<>>
  /\ calls = <<>>
  /\ jobs = <<>>
  /\ lastJson = <<>>
  /\ result = Undefined

\* requests built from every Input, and their bodies read
NextBody ==
  \/ \E in \in Inputs : NewRequest(in)
  \/ ReadBody

SpecBody == Init /\ [][NextBody]_vars

\* one request, assigned every payload, any number of times
NextResponse ==
  \/ NewRequest(DefaultInput)
  \/ \E data \in Payloads : SetResponse(data)

SpecResponse == Init /\ [][NextResponse]_vars
----------------------------------------------------------------------------
(* The Client *)

MaxClients == 2
MaxCalls == 2

baseURL == "https://api.flopay.io"
version == "v1"

\* auth.path, the relative path of the auth endpoint
authPath == "login"

\* new auth.Request(cred).toJSONString(): the JSON of the credential
authRequestBody(cred) == <<"JSON", cred.id, cred.secret>>

\* new auth.Auth(json): the access token of a parsed response
Auth(json) == [t |-> "Auth", json |-> json]

\* new Client(id, secret)
Client(id, secret) == [cred |-> [id |-> id, secret |-> secret], auth |-> Undefined]

\* new InvalidCredError()
InvalidCredError ==
  [kind |-> "InvalidCredError",
   message |-> "FLOPAY_CLIENT_{ID, SECRET} env vars expected but not found. "
               \o "Please set them and try again. Or use the other constructor "
               \o "that accepts the client id and client secret as arguments."]

\* a faulty variant: an empty variable taken for a missing one
fromEnvEmptyIsMissing(e) ==
  LET id == e.FLOPAY_CLIENT_ID
      secret == e.FLOPAY_CLIENT_SECRET
  IN IF ~Truthy(id) \/ ~Truthy(secret)
     THEN [thrown |-> InvalidCredError, returned |-> Undefined]
     ELSE [thrown |-> NoThrow, returned |-> Client(id, secret)]

\* Client.fromEnv() under environment e: what it throws or returns
fromEnv(e) ==
  LET id == e.FLOPAY_CLIENT_ID
      secret == e.FLOPAY_CLIENT_SECRET
  IN IF id = Undefined \/ secret = Undefined
     THEN [thrown |-> InvalidCredError, returned |-> Undefined]
     ELSE [thrown |-> NoThrow, returned |-> Client(id, secret)]

\* client.endpoint(path)
endpoint(path) == baseURL \o "/" \o version \o "/" \o path

\* client.isAuthorized()
isAuthorized(client) == Bool(FALSE)

\* authorize() up to its first await: the request is built and fetch called
authorizeStart(c, client) ==
  [client |-> c,
   pc |-> "fetch",
   url |-> endpoint(authPath),
   method |-> "POST",
   body |-> authRequestBody(client.cred),
   fetches |-> 1,
   failure |-> Undefined,
   json |-> Undefined,
   error |-> Undefined]

\* a faulty variant: the token kept when one is held already
authorizeResumeKeepsToken(call, auth) ==
  IF call.failure # Undefined
  THEN [call |-> [call EXCEPT !.pc = "rejected", !.error = call.failure], auth |-> auth]
  ELSE IF call.pc = "fetch settled"
       THEN [call |-> [call EXCEPT !.pc = "json"], auth |-> auth]
       ELSE [call |-> [call EXCEPT !.pc = "done"],
             auth |-> IF auth = Undefined THEN Auth(call.json) ELSE auth]

\* a faulty variant: the token dropped when the call fails
authorizeResumeDropsToken(call, auth) ==
  IF call.failure # Undefined
  THEN [call |-> [call EXCEPT !.pc = "rejected", !.error = call.failure],
        auth |-> Undefined]
  ELSE IF call.pc = "fetch settled"
       THEN [call |-> [call EXCEPT !.pc = "json"], auth |-> auth]
       ELSE [call |-> [call EXCEPT !.pc = "done"], auth |-> Auth(call.json)]

\* authorize() resumed after an await that settled, on a client whose token is
\* auth: a rejected await throws out of the call; after fetch, res.json() is
\* called; after res.json(), the token is stored
authorizeResume(call, auth) ==
  IF call.failure # Undefined
  THEN [call |-> [call EXCEPT !.pc = "rejected", !.error = call.failure], auth |-> auth]
  ELSE IF call.pc = "fetch settled"
       THEN [call |-> [call EXCEPT !.pc = "json"], auth |-> auth]
       ELSE [call |-> [call EXCEPT !.pc = "done"], auth |-> Auth(call.json)]

\* the values of the two environment variables
EnvValues(set) == {Undefined, Str(""), Str(set)}

\* the credentials given to the constructor
Ids == {Str("id-1"), Str("id-2")}
Secrets == {Str("secret-1")}

\* the parsed bodies of the auth endpoint's responses
Tokens == {Str("token-A"), Str("token-B")}

\* the failures of the HTTP round trip and of the JSON parse
FetchFailures == {[kind |-> "FetchError", message |-> "request failed"]}
ParseFailures == {[kind |-> "SyntaxError", message |-> "Unexpected token"]}

\* new Client(id, secret)
NewClient(id, secret) ==
  /\ Len(clients) < MaxClients
  /\ clients' = Append(clients, Client(id, secret))
  /\ lastJson' = Append(lastJson, 0)
  /\ result' = Client(id, secret)
  /\ thrown' = NoThrow
  /\ lastOp' = "new Client"
  /\ UNCHANGED <<env, calls, jobs>>
  /\ UNCHANGED requestVars

\* Client.fromEnv()
FromEnv ==
  LET r == fromEnv(env) IN
  /\ Len(clients) < MaxClients
  /\ clients' = IF r.thrown = NoThrow THEN Append(clients, r.returned) ELSE clients
  /\ lastJson' = IF r.thrown = NoThrow THEN Append(lastJson, 0) ELSE lastJson
  /\ result' = r.returned
  /\ thrown' = r.thrown
  /\ lastOp' = "fromEnv"
  /\ UNCHANGED <<env, calls, jobs>>
  /\ UNCHANGED requestVars

\* clients[c].authorize(), to its first await
Authorize(c) ==
  /\ Len(calls) < MaxCalls
  /\ calls' = Append(calls, authorizeStart(c, clients[c]))
  /\ result' = Undefined
  /\ thrown' = NoThrow
  /\ lastOp' = "authorize"
  /\ UNCHANGED <<env, clients, jobs, lastJson>>
  /\ UNCHANGED requestVars

\* the fetch of call k settles: it resolves with a response, or rejects
FetchSettles(k, failure) ==
  /\ calls[k].pc = "fetch"
  /\ calls' = [calls EXCEPT ![k].pc = "fetch settled", ![k].failure = failure]
  /\ jobs' = Append(jobs, k)
  /\ result' = Undefined
  /\ thrown' = NoThrow
  /\ lastOp' = "authorize"
  /\ UNCHANGED <<env, clients, lastJson>>
  /\ UNCHANGED requestVars

\* the res.json() of call k settles: it resolves with the parsed body, or rejects
JsonSettles(k, json, failure) ==
  /\ calls[k].pc = "json"
  /\ calls' = [calls EXCEPT ![k].pc = "json settled", ![k].json = json, ![k].failure = failure]
  /\ jobs' = Append(jobs, k)
  /\ lastJson' = IF failure = Undefined
                 THEN [lastJson EXCEPT ![calls[k].client] = k]
                 ELSE lastJson
  /\ result' = Undefined
  /\ thrown' = NoThrow
  /\ lastOp' = "authorize"
  /\ UNCHANGED <<env, clients>>
  /\ UNCHANGED requestVars

\* the first microtask runs: the call whose await settled first is resumed
Resume ==
  /\ jobs # <<>>
  /\ LET k == Head(jobs)
         c == calls[k].client
         after == authorizeResume(calls[k], clients[c].auth)
     IN /\ calls' = [calls EXCEPT ![k] = after.call]
        /\ clients' = [clients EXCEPT ![c].auth = after.auth]
  /\ jobs' = Tail(jobs)
  /\ result' = Undefined
  /\ thrown' = NoThrow
  /\ lastOp' = "authorize"
  /\ UNCHANGED <<env, lastJson>>
  /\ UNCHANGED requestVars

\* clients[c].isAuthorized()
IsAuthorized(c) ==
  /\ result' = [client |-> c, returned |-> isAuthorized(clients[c])]
  /\ thrown' = NoThrow
  /\ lastOp' = "isAuthorized"
  /\ UNCHANGED <<env, clients, calls, jobs, lastJson>>
  /\ UNCHANGED requestVars

\* any environment; no Client yet
InitEnv ==
  /\ input = DefaultInput
  /\ raw = Undefined
  /\ output = Undefined
  /\ bodyResult = Undefined
  /\ arg = Undefined
  /\ outputOf = Undefined
  /\ thrown = NoThrow
  /\ lastOp = "new"
  /\ env \in [FLOPAY_CLIENT_ID : EnvValues("id-env"),
              FLOPAY_CLIENT_SECRET : EnvValues("secret-env")]
  /\ clients = <<>>
  /\ calls = <<>>
  /\ jobs = <<>>
  /\ lastJson = <<>>
  /\ result = Undefined

\* clients made by the constructor, and their authorize() calls interleaved
NextClient ==
  \/ \E secret \in Secrets : NewClient(Str("id-1"), secret)
  \/ \E c \in 1..Len(clients) : Authorize(c)
  \/ \E k \in 1..Len(calls), failure \in {Undefined} \cup FetchFailures :
       FetchSettles(k, failure)
  \/ \E k \in 1..Len(calls), json \in Tokens : JsonSettles(k, json, Undefined)
  \/ \E k \in 1..Len(calls), failure \in ParseFailures :
       JsonSettles(k, Undefined, failure)
  \/ Resume
  \/ \E c \in 1..Len(clients) : IsAuthorized(c)

SpecClient == Init /\ [][NextClient]_vars

\* clients made by the constructor and by fromEnv(), under any environment
NextEnv ==
  \/ \E id \in Ids, secret \in Secrets : NewClient(id, secret)
  \/ FromEnv
  \/ \E c \in 1..Len(clients) : IsAuthorized(c)

SpecEnv == InitEnv /\ [][NextEnv]_vars

----------------------------------------------------------------------------
(* Properties of the Request *)

\* the `response` of the payload last assigned
ArgResponse == Get(arg, "response")

\* the last operation was an assignment to `response`
Assigned == lastOp = "response"

\* object o has key k
Present(o, k) == o.t = "obj" /\ k \in DOMAIN o.v

\* o.a, or o.b when a is missing from o
WhenMissing(o, a, b) == IF Present(o, a) THEN Get(o, a) ELSE Get(o, b)

\* o.a, or o.b when o.a is missing or falsy
WhenFalsy(o, a, b) == IF Truthy(Get(o, a)) THEN Get(o, a) ELSE Get(o, b)

\* the message an error made from provider message m carries
Carried(m) == IF m = Undefined THEN "" ELSE m.v

\* the strings around a type or a message in the messages of the errors raised
Before ==
  {"", "Cannot read properties of "}
  \cup {"unknown error type: " \o t :
          t \in {"", "undefined", "bogus", "invalid_customer_num", "exceeded_daily_limit"}}
  \cup {"unknown error type: " \o t \o ", with message " :
          t \in {"", "undefined", "bogus", "invalid_customer_num", "exceeded_daily_limit"}}
After ==
  {"", " (reading 'message_type')"}
  \cup {", with message " \o m : m \in {"", "undefined", "bad number", "limit hit", "ok"}}
  \cup {m : m \in {"undefined", "bad number", "limit hit", "ok"}}

\* string h contains string n
Contains(h, n) == \E p \in Before, q \in After : h = p \o n \o q

\* C1: an assignment to `response` that returned normally left `output`
\* populated with the Output built from the assigned payload; one that did not
\* return normally raised.
C1_AssignedPopulatesOrRaises ==
  (Assigned /\ thrown = NoThrow) =>
    /\ outputGetter # Undefined
    /\ outputGetter.success = Bool(TRUE)
    /\ \A k \in DOMAIN outputGetter.response :
         outputGetter.response[k] = Get(ArgResponse, k)

\* C1 witness: an assignment returned normally and an Output is held
C1_Witness == Assigned /\ thrown = NoThrow /\ output # Undefined /\ raw = arg

\* C2 as stated: with success === false, the type read from message_type, or
\* from error_type when message_type is missing, selects the error class, and
\* the error carries message, or error_message when message is missing.
C2_TypedErrorsWhenMissing ==
  (Assigned /\ Get(arg, "success") = Bool(FALSE) /\ ~Nullish(ArgResponse)) =>
    LET type == WhenMissing(ArgResponse, "message_type", "error_type")
        message == WhenMissing(ArgResponse, "message", "error_message")
    IN /\ type = Str("invalid_customer_num") =>
            thrown = [kind |-> "InvalidCustomerNumber", message |-> Carried(message)]
       /\ type = Str("exceeded_daily_limit") =>
            thrown = [kind |-> "ExceededDailyLimit", message |-> Carried(message)]

\* C2 as amended: the same, with error_type read when message_type is missing
\* or falsy, and error_message read when message is missing or falsy.
C2_TypedErrorsWhenFalsy ==
  (Assigned /\ Get(arg, "success") = Bool(FALSE) /\ ~Nullish(ArgResponse)) =>
    LET type == WhenFalsy(ArgResponse, "message_type", "error_type")
        message == WhenFalsy(ArgResponse, "message", "error_message")
    IN /\ type = Str("invalid_customer_num") =>
            thrown = [kind |-> "InvalidCustomerNumber", message |-> Carried(message)]
       /\ type = Str("exceeded_daily_limit") =>
            thrown = [kind |-> "ExceededDailyLimit", message |-> Carried(message)]

\* C2 witness: an empty message, so that the error carries error_message
C2_Witness ==
  /\ Assigned
  /\ arg = Payload(Bool(FALSE), Obj([message_type |-> Str("invalid_customer_num"),
                                     message |-> Str(""),
                                     error_message |-> Str("limit hit")]))
  /\ thrown = [kind |-> "InvalidCustomerNumber", message |-> "limit hit"]

\* the error type and message of the payload last assigned, as `||` selects
\* them (undefined when there is no `response` to read them from)
ArgType ==
  IF Nullish(ArgResponse) THEN Undefined
  ELSE WhenFalsy(ArgResponse, "message_type", "error_type")
ArgMessage ==
  IF Nullish(ArgResponse) THEN Undefined
  ELSE WhenFalsy(ArgResponse, "message", "error_message")

\* the last assignment raised an error of neither typed kind whose message
\* contains the payload's type and message
RaisedGeneric ==
  /\ thrown.kind \notin {"none", "InvalidCustomerNumber", "ExceededDailyLimit"}
  /\ Contains(thrown.message, toStr(ArgType))
  /\ Contains(thrown.message, toStr(ArgMessage))

\* C3 as stated: every payload with success === false whose type is neither
\* invalid_customer_num nor exceeded_daily_limit (a missing type included)
\* raises a generic error whose message contains the type and the message.
C3_UnknownTypeRaisesGeneric ==
  (Assigned /\ Get(arg, "success") = Bool(FALSE)
   /\ ArgType \notin {Str("invalid_customer_num"), Str("exceeded_daily_limit")}) =>
    RaisedGeneric

\* C3 as amended: the same for the payloads whose `response` is neither
\* undefined nor null.
C3_UnknownTypeRaisesGenericGivenResponse ==
  (Assigned /\ Get(arg, "success") = Bool(FALSE) /\ ~Nullish(ArgResponse)
   /\ ArgType \notin {Str("invalid_customer_num"), Str("exceeded_daily_limit")}) =>
    RaisedGeneric

\* C3 witness: an unrecognised type, and the error naming it
C3_Witness ==
  /\ Assigned
  /\ arg = Payload(Bool(FALSE), Obj([error_type |-> Str("bogus"),
                                     error_message |-> Str("limit hit")]))
  /\ thrown = [kind |-> "Error",
               message |-> "unknown error type: bogus, with message limit hit"]

\* the Output with exactly the six fields of r, the missing ones undefined
SixFields(r) ==
  [success |-> Bool(TRUE),
   response |-> [k \in {"reference", "provider", "recipient", "amount", "currency",
                        "message"} |-> IF Present(r, k) THEN r.v[k] ELSE Undefined]]

\* the last assignment was treated as a success
TreatedAsSuccess ==
  /\ thrown = NoThrow
  /\ outputGetter = SixFields(ArgResponse)
  /\ responseGetter = arg

\* C4 as stated: every payload whose success is not exactly false is treated
\* as a success: output holds success: true and the six fields of the
\* payload's response, and the raw response is the payload.
C4_NotFalseIsSuccess ==
  (Assigned /\ Get(arg, "success") # Bool(FALSE)) => TreatedAsSuccess

\* C4 as amended: the same for the payloads whose `response` is neither
\* undefined nor null.
C4_NotFalseIsSuccessGivenResponse ==
  (Assigned /\ Get(arg, "success") # Bool(FALSE) /\ ~Nullish(ArgResponse)) =>
    TreatedAsSuccess

\* C4 witness: success absent, a response with keys missing and a key more
C4_Witness ==
  /\ Assigned
  /\ \E r \in {Obj(FullResponse @@ [fee |-> Num(0)]),
               Obj([reference |-> Str("R2"), message |-> Str("ok")])} :
       /\ arg = Payload(Undefined, r)
       /\ output = SixFields(r)
  /\ raw = arg

\* the wire name of each key of Input
WireName ==
  "senderAmount" :> "sender_amount" @@ "senderCurrency" :> "sender_currency" @@
  "recipientAmount" :> "recipient_amount" @@ "recipientCurrency" :> "recipient_currency" @@
  "recipientNo" :> "recipient_no" @@ "countryCode" :> "country_code" @@
  "serviceCode" :> "service_code" @@ "reference" :> "reference" @@
  "callbackURLs" :> "callback_urls" @@ "recipientName" :> "recipient_name" @@
  "provider" :> "provider" @@ "live" :> "live"

\* C5: the body read from a request is the image of its Input under the
\* renaming of keys: every entry under its snake_case name (callbackURLs under
\* callback_urls) with its value, no other key, and no callbackURLs key.
C5_BodyIsRenamedInput ==
  lastOp = "body" =>
    /\ bodyResult.t = "obj"
    /\ DOMAIN bodyResult.v = {WireName[input[i][1]] : i \in 1..Len(input)}
    /\ \A i \in 1..Len(input) : bodyResult.v[WireName[input[i][1]]] = input[i][2]
    /\ "callbackURLs" \notin DOMAIN bodyResult.v

\* C5 witness: a body read from an Input with two callback URLs and no provider
C5_Witness ==
  /\ lastOp = "body"
  /\ \E i \in 1..Len(input) :
       /\ input[i][1] = "callbackURLs"
       /\ Len(input[i][2].v) = 2
       /\ bodyResult.v["callback_urls"] = input[i][2]
  /\ \A i \in 1..Len(input) : input[i][1] # "provider"
  /\ "provider" \notin DOMAIN bodyResult.v

\* C10: an assignment that raises leaves the failing payload as the raw
\* response and `output` as it was; so the raw response is the payload the
\* output was built from only after an assignment that returned normally.
C10_RaiseKeepsOutput ==
  /\ [][(lastOp' = "response" /\ thrown' # NoThrow) =>
          (responseGetter' = arg' /\ outputGetter' = outputGetter)]_vars
  /\ []((raw # Undefined /\ outputOf = raw) => (Assigned /\ thrown = NoThrow))

\* C10 witness: a reused request whose second assignment raised
C10_Witness ==
  /\ Assigned
  /\ thrown # NoThrow
  /\ raw = arg
  /\ output # Undefined
  /\ outputOf # raw
----------------------------------------------------------------------------
(* Properties of the Client *)

\* C6: fromEnv() raises InvalidCredError exactly when one of the two variables
\* is undefined (an empty string is a value); otherwise it returns a Client
\* with the credential of new Client(id, secret) and no token.
C6_FromEnvRaisesIffUndefined ==
  lastOp = "fromEnv" =>
    LET id == env.FLOPAY_CLIENT_ID
        secret == env.FLOPAY_CLIENT_SECRET
        missing == id = Undefined \/ secret = Undefined
    IN /\ (thrown.kind = "InvalidCredError") <=> missing
       /\ missing => thrown = InvalidCredError /\ result = Undefined
       /\ ~missing =>
            /\ thrown = NoThrow
            /\ result.cred = [id |-> id, secret |-> secret]
            /\ result.cred = Client(id, secret).cred
            /\ result.auth = Undefined
            /\ clients[Len(clients)] = result

\* C6 witness: fromEnv() returned a Client from an empty client id
C6_Witness ==
  /\ lastOp = "fromEnv"
  /\ env.FLOPAY_CLIENT_ID = Str("")
  /\ thrown = NoThrow
  /\ result.cred.id = Str("")

\* C7: isAuthorized() returns true when the client holds a token, and false
\* otherwise.
C7_IsAuthorizedReportsToken ==
  lastOp = "isAuthorized" =>
    result.returned = Bool(clients[result.client].auth # Undefined)

\* every authorize() call on client c has completed or rejected
Settled(c) ==
  \A k \in 1..Len(calls) : calls[k].client = c => calls[k].pc \in {"done", "rejected"}

\* call k completes in this step
Completes(k) == calls[k].pc # "done" /\ calls'[k].pc = "done"

\* C8: a completing authorize() replaces the client's token by the one built
\* from its own response; a token changes only so, and only on the client of
\* the completing call; once every call on a client has settled, its token is
\* that of the call whose parsed response resolved last.
C8_LastWriterWins ==
  /\ [][\A k \in 1..Len(calls) :
          Completes(k) => clients'[calls[k].client].auth = Auth(calls[k].json)]_vars
  /\ [][\A c \in 1..Len(clients) :
          clients'[c].auth # clients[c].auth =>
            \E k \in 1..Len(calls) : calls[k].client = c /\ Completes(k)]_vars
  /\ [](\A c \in 1..Len(clients) :
          (Settled(c) /\ lastJson[c] # 0) =>
            clients[c].auth = Auth(calls[lastJson[c]].json))

\* C8 witness: two calls on one client, both completed, the first one's parsed
\* response resolved last, and its token stored
C8_Witness ==
  /\ Len(calls) = 2
  /\ calls[1].client = calls[2].client
  /\ calls[1].pc = "done" /\ calls[2].pc = "done"
  /\ calls[1].json # calls[2].json
  /\ lastJson[calls[1].client] = 1
  /\ clients[calls[1].client].auth = Auth(calls[1].json)

\* C9: an authorize() call fetches once and never again; a failed round trip
\* or parse rejects the call with that failure and leaves the client as it
\* was; a client changes only when one of its calls completes, and then only
\* in its token.
C9_FailureLeavesClient ==
  /\ [](\A k \in 1..Len(calls) :
          /\ calls[k].fetches = 1
          /\ calls[k].pc = "rejected" =>
               /\ calls[k].error = calls[k].failure
               /\ calls[k].error \in FetchFailures \cup ParseFailures)
  /\ [][\A k \in 1..Len(calls) :
          /\ (calls'[k].pc = "fetch" => calls[k].pc = "fetch")
          /\ (calls[k].pc # "rejected" /\ calls'[k].pc = "rejected") =>
               clients' = clients]_vars
  /\ [][\A c \in 1..Len(clients) :
          clients'[c] # clients[c] =>
            /\ clients'[c].cred = clients[c].cred
            /\ \E k \in 1..Len(calls) : calls[k].client = c /\ Completes(k)]_vars

\* C9 witness: a rejected call on a client that holds a token
C9_Witness ==
  \E k \in 1..Len(calls) :
    /\ calls[k].pc = "rejected"
    /\ calls[k].error \in ParseFailures
    /\ clients[calls[k].client].auth # Undefined

=============================================================================
